---- MODULE Spec2Model ----
(***************************************************************************)
(* A model of types/coin.go: Coin, Coins, their text encoding and the      *)
(* merge-based arithmetic on Coins.                                        *)
(*                                                                         *)
(* A Go string is modelled as a sequence of one-character strings, a Coin  *)
(* as a record [Denom, Amount], a Coins value as a sequence of Coin.       *)
(* int64 is modelled as a two's-complement integer of AmountBits bits.     *)
(***************************************************************************)
EXTENDS Integers, Sequences, FiniteSets, TLC

VARIABLES
    coinsA,     \* first operand / receiver (a Coins value)
    coinsB,     \* second operand (a Coins value)
    ret,        \* the value returned by the last call
    pc,         \* the last operation applied ("start" before any)
    steps,      \* number of results stored back into an operand
    fromValid,  \* history: both initial operands were sorted and zero-free
    str,        \* the text handed to ParseCoins
    intBits,    \* width of the build's native int (strconv.Atoi)
    heap,       \* backing arrays: a sequence of arrays of Coin
    slA,        \* slice header of the receiver   [arr, off, len, cap]
    slB,        \* slice header of the argument
    slR,        \* slice header of the last result
    a0,         \* history: elements of the receiver before the call
    b0,         \* history: elements of the argument before the call
    muts        \* number of in-place changes made to the result

vars == <<coinsA, coinsB, ret, pc, steps, fromValid, str, intBits,
          heap, slA, slB, slR, a0, b0, muts>>

calcVars == <<coinsA, coinsB, ret, pc, steps, fromValid>>
textVars == <<str, intBits>>
memVars  == <<heap, slA, slB, slR, a0, b0, muts>>

-----------------------------------------------------------------------------
(* Bounds *)

AmountBits == 8     \* width standing for the 64 bits of Coin.Amount
MaxSteps   == 2     \* results fed back as operands
MaxLen     == 2     \* length of the sequences handed to IsValid and String
MaxTokens  == 2     \* comma-separated tokens of a ParseCoins input
MaxMuts    == 2     \* in-place changes to a result
MaxSlack   == 1     \* extra capacity an allocation may round up to

-----------------------------------------------------------------------------
(* int64 *)

MinAmount == -(2 ^ (AmountBits - 1))
MaxAmount == (2 ^ (AmountBits - 1)) - 1

\* two's-complement wrap of a mathematical integer into the amount width
Wrap(n) == ((n - MinAmount) % (2 ^ AmountBits)) + MinAmount

Add64Sub(x, y) == Wrap(x - y)
Add64(x, y) == Wrap(x + y)

\* a negation that clamps instead of wrapping
Neg64Saturating(x) == IF x = MinAmount THEN MaxAmount ELSE -x
Neg64(x) == Wrap(-x)

-----------------------------------------------------------------------------
(* strings *)

\* byte order of the characters the model uses
ByteOrder == <<"\t", " ", ",", "-", "0", "1", "2", "3", "4", "5", "6", "7",
               "8", "9", "A", "B", "a", "b", "c">>

Ord(c) == CHOOSE i \in 1..Len(ByteOrder) : ByteOrder[i] = c

Min2(x, y) == IF x < y THEN x ELSE y

\* strings.Compare: -1, 0 or 1 by bytewise lexicographic order
StrCompare(s, t) ==
    LET n == Min2(Len(s), Len(t))
        diff == {i \in 1..n : s[i] # t[i]}
    IN  IF diff = {}
        THEN IF Len(s) < Len(t) THEN -1 ELSE IF Len(s) > Len(t) THEN 1 ELSE 0
        ELSE LET i == CHOOSE j \in diff : \A k \in diff : j <= k
             IN  IF Ord(s[i]) < Ord(t[i]) THEN -1 ELSE 1

StrLess(s, t) == StrCompare(s, t) = -1
StrLessEq(s, t) == StrCompare(s, t) # 1

-----------------------------------------------------------------------------
(* Coin, Coins *)

Coin(denom, amount) == [Denom |-> denom, Amount |-> amount]

\* Must be sorted, and not have 0 amounts
RECURSIVE IsValidLoop(_, _, _)
IsValidLoop(coins, i, lowDenom) ==
    IF i > Len(coins) THEN TRUE
    ELSE IF StrLessEq(coins[i].Denom, lowDenom) THEN FALSE
    ELSE IF coins[i].Amount = 0 THEN FALSE
    ELSE IsValidLoop(coins, i + 1, coins[i].Denom)

IsValid(coins) ==
    IF Len(coins) = 0 THEN TRUE
    ELSE IF Len(coins) = 1 THEN coins[1].Amount # 0
    ELSE IsValidLoop(coins, 2, coins[1].Denom)

\* case 0 of the switch in Plus: equal denominations
SumCaseKeepZero(sum, coinA, coinB) ==
    Append(sum, Coin(coinA.Denom, Add64(coinA.Amount, coinB.Amount)))
SumCase(sum, coinA, coinB) ==
    IF Add64(coinA.Amount, coinB.Amount) = 0
    THEN sum
    ELSE Append(sum, Coin(coinA.Denom, Add64(coinA.Amount, coinB.Amount)))

\* the loop of Plus with case 0 advancing indexA only
RECURSIVE PlusLoopNoAdvanceB(_, _, _, _, _)
PlusLoopNoAdvanceB(sum, indexA, indexB, cA, cB) ==
    IF indexA = Len(cA)
    THEN IF indexB = Len(cB)
         THEN sum
         ELSE sum \o SubSeq(cB, indexB + 1, Len(cB))
    ELSE IF indexB = Len(cB)
    THEN sum \o SubSeq(cA, indexA + 1, Len(cA))
    ELSE LET coinA == cA[indexA + 1]
             coinB == cB[indexB + 1]
             cmp == StrCompare(coinA.Denom, coinB.Denom)
         IN  IF cmp = -1
             THEN PlusLoopNoAdvanceB(Append(sum, coinA), indexA + 1, indexB, cA, cB)
             ELSE IF cmp = 0
             THEN PlusLoopNoAdvanceB(SumCase(sum, coinA, coinB), indexA + 1, indexB, cA, cB)
             ELSE PlusLoopNoAdvanceB(Append(sum, coinB), indexA, indexB + 1, cA, cB)

\* the loop of Plus; indexA, indexB are 0-based as in the source
RECURSIVE PlusLoop(_, _, _, _, _)
PlusLoop(sum, indexA, indexB, cA, cB) ==
    IF indexA = Len(cA)
    THEN IF indexB = Len(cB)
         THEN sum
         ELSE sum \o SubSeq(cB, indexB + 1, Len(cB))
    ELSE IF indexB = Len(cB)
    THEN sum \o SubSeq(cA, indexA + 1, Len(cA))
    ELSE LET coinA == cA[indexA + 1]
             coinB == cB[indexB + 1]
             cmp == StrCompare(coinA.Denom, coinB.Denom)
         IN  IF cmp = -1
             THEN PlusLoop(Append(sum, coinA), indexA + 1, indexB, cA, cB)
             ELSE IF cmp = 0
             THEN PlusLoop(SumCase(sum, coinA, coinB), indexA + 1, indexB + 1, cA, cB)
             ELSE PlusLoop(Append(sum, coinB), indexA, indexB + 1, cA, cB)

Plus(cA, cB) == PlusLoop(<<>>, 0, 0, cA, cB)

Negative(coins) ==
    [i \in 1..Len(coins) |-> Coin(coins[i].Denom, Neg64(coins[i].Amount))]

Minus(cA, cB) == Plus(cA, Negative(cB))

IsNonnegative(coins) ==
    IF Len(coins) = 0 THEN TRUE
    ELSE \A i \in 1..Len(coins) : ~(coins[i].Amount < 0)

IsPositive(coins) ==
    IF Len(coins) = 0 THEN FALSE
    ELSE \A i \in 1..Len(coins) : ~(coins[i].Amount <= 0)

IsGTE(cA, cB) ==
    LET diff == Minus(cA, cB)
    IN  IF Len(diff) = 0 THEN TRUE ELSE IsNonnegative(diff)

IsZero(coins) == Len(coins) = 0

IsEqual(cA, cB) ==
    IF Len(cA) # Len(cB) THEN FALSE
    ELSE \A i \in 1..Len(cA) : cA[i] = cB[i]

Less(c, i, j) == StrLess(c[i].Denom, c[j].Denom)

-----------------------------------------------------------------------------
(* Text encoding: String, ParseCoin, ParseCoins *)

Digits == <<"0", "1", "2", "3", "4", "5", "6", "7", "8", "9">>

IsDigit(c) == \E i \in 1..Len(Digits) : Digits[i] = c     \* [[:digit:]]
IsSpace(c) == c \in {"\t", " "}                           \* [[:space:]]
IsAlpha(c) == c \in {"A", "B", "a", "b", "c"}             \* [[:alpha:]]

DigitValue(c) == (CHOOSE i \in 1..Len(Digits) : Digits[i] = c) - 1

\* the decimal digits of n >= 0, most significant first
RECURSIVE Decimal(_)
Decimal(n) ==
    IF n < 10 THEN <<Digits[n + 1]>>
    ELSE Decimal(n \div 10) \o <<Digits[(n % 10) + 1]>>

\* fmt's %v of an int64
FormatInt(n) == IF n < 0 THEN <<"-">> \o Decimal(-n) ELSE Decimal(n)

\* Coin.String
CoinString(coin) == FormatInt(coin.Amount) \o coin.Denom

RECURSIVE CoinsStringLoop(_, _, _)
CoinsStringLoop(coins, i, out) ==
    IF i > Len(coins) THEN out
    ELSE CoinsStringLoop(coins, i + 1, out \o CoinString(coins[i]) \o <<",">>)

\* Coins.String without the final out[:len(out)-1]
CoinsStringKeepComma(coins) ==
    IF Len(coins) = 0 THEN <<>>
    ELSE CoinsStringLoop(coins, 1, <<>>)

\* Coins.String
CoinsString(coins) ==
    IF Len(coins) = 0 THEN <<>>
    ELSE LET out == CoinsStringLoop(coins, 1, <<>>)
         IN  SubSeq(out, 1, Len(out) - 1)

\* strings.TrimSpace left out
TrimSpaceNone(s) == s

\* strings.TrimSpace
TrimSpace(s) ==
    LET inner == {i \in 1..Len(s) : ~IsSpace(s[i])}
    IN  IF inner = {} THEN <<>>
        ELSE LET first == CHOOSE i \in inner : \A j \in inner : i <= j
                 last  == CHOOSE i \in inner : \A j \in inner : j <= i
             IN  SubSeq(s, first, last)

\* strings.Split(s, sep) for a one-character separator
RECURSIVE Split(_, _)
Split(s, sep) ==
    LET at == {i \in 1..Len(s) : s[i] = sep}
    IN  IF at = {} THEN <<s>>
        ELSE LET i == CHOOSE j \in at : \A k \in at : j <= k
             IN  <<SubSeq(s, 1, i - 1)>> \o Split(SubSeq(s, i + 1, Len(s)), sep)

\* membership in one of the character classes of reCoin
InClass(c, class) ==
    IF class = "digit" THEN IsDigit(c)
    ELSE IF class = "space" THEN IsSpace(c)
    ELSE IsAlpha(c)

\* length of the longest run of characters of the class in s from index from
RunLength(s, from, class) ==
    LET stop == {i \in from..Len(s) : ~InClass(s[i], class)}
    IN  IF stop = {} THEN Len(s) - from + 1
        ELSE (CHOOSE i \in stop : \A j \in stop : i <= j) - from

\* reCoin.FindStringSubmatch: ^([[:digit:]]+)[[:space:]]*([[:alpha:]]+)$
MatchCoin(s) ==
    LET nd == RunLength(s, 1, "digit")
        ns == RunLength(s, nd + 1, "space")
        na == RunLength(s, nd + ns + 1, "alpha")
    IN  IF nd >= 1 /\ na >= 1 /\ nd + ns + na = Len(s)
        THEN [ok |-> TRUE, amount |-> SubSeq(s, 1, nd),
              denom |-> SubSeq(s, nd + ns + 1, Len(s))]
        ELSE [ok |-> FALSE, amount |-> <<>>, denom |-> <<>>]

RECURSIVE DecimalValue(_)
DecimalValue(ds) ==
    IF Len(ds) = 0 THEN 0
    ELSE 10 * DecimalValue(SubSeq(ds, 1, Len(ds) - 1)) + DigitValue(ds[Len(ds)])

\* strconv.Atoi on a run of digits, for a native int of the given width
Atoi(ds, bits) ==
    IF DecimalValue(ds) > (2 ^ (bits - 1)) - 1
    THEN [err |-> "ErrRange", n |-> 0]
    ELSE [err |-> "", n |-> DecimalValue(ds)]

NoCoin == Coin(<<>>, 0)

ParseCoin(s, bits) ==
    LET matches == MatchCoin(TrimSpace(s))
    IN  IF ~matches.ok
        THEN [err |-> "InvalidFormat", coin |-> NoCoin]
        ELSE LET amt == Atoi(matches.amount, bits)
             IN  IF amt.err # ""
                 THEN [err |-> amt.err, coin |-> NoCoin]
                 ELSE [err |-> "", coin |-> Coin(matches.denom, amt.n)]

\* the loop of ParseCoins over the split input
RECURSIVE ParseEach(_, _, _, _)
ParseEach(split, i, coins, bits) ==
    IF i > Len(split) THEN [err |-> "", coins |-> coins]
    ELSE LET r == ParseCoin(split[i], bits)
         IN  IF r.err # ""
             THEN [err |-> r.err, coins |-> coins]
             ELSE ParseEach(split, i + 1, Append(coins, r.coin), bits)

\* Coins.Sort: sort.Sort is not stable, so every ordering of the elements
\* that is ascending under Less is a possible outcome
SortOutcomes(coins) ==
    {sorted \in {[i \in 1..Len(coins) |-> coins[p[i]]] :
                    p \in Permutations(1..Len(coins))} :
        \A i, j \in 1..Len(sorted) : i < j => ~Less(sorted, j, i)}

\* ParseCoins: the set of values it may return (one per outcome of the sort)
ParseCoins(s, bits) ==
    IF Len(s) = 0 THEN {[err |-> "", coins |-> <<>>]}
    ELSE LET parsed == ParseEach(Split(s, ","), 1, <<>>, bits)
         IN  IF parsed.err # "" THEN {parsed}
             ELSE {IF ~IsValid(sorted)
                   THEN [err |-> "InvalidCoinSet", coins |-> <<>>]
                   ELSE [err |-> "", coins |-> sorted] :
                      sorted \in SortOutcomes(parsed.coins)}

-----------------------------------------------------------------------------
(* Operands of the arithmetic *)

Denoms == {<<"a">>, <<"a", "b">>, <<"b">>}

SampleAmounts == {MinAmount, -1, 0, 1}

StrictlyIncreasing(coins) ==
    \A i \in 1..(Len(coins) - 1) : StrLess(coins[i].Denom, coins[i + 1].Denom)

NoZero(coins) == \A i \in 1..Len(coins) : coins[i].Amount # 0

ZeroFreeCanonical(coins) == StrictlyIncreasing(coins) /\ NoZero(coins)

SeqsUpTo(S, n) == UNION {[1..k -> S] : k \in 0..n}

\* sorted ascending by denomination, no duplicate denominations
Canonical ==
    {c \in SeqsUpTo({Coin(d, m) : d \in Denoms, m \in SampleAmounts},
                    Cardinality(Denoms)) : StrictlyIncreasing(c)}

NoText == str = <<>> /\ intBits = AmountBits
NoMem  == /\ heap = <<>> /\ slA = <<>> /\ slB = <<>> /\ slR = <<>>
          /\ a0 = <<>> /\ b0 = <<>> /\ muts = 0

-----------------------------------------------------------------------------
(* The arithmetic: calls on two operands, results fed back as operands *)

Init ==
    /\ coinsA \in Canonical
    /\ coinsB \in Canonical
    /\ ret = <<>>
    /\ pc = "start"
    /\ steps = 0
    /\ fromValid = (ZeroFreeCanonical(coinsA) /\ ZeroFreeCanonical(coinsB))
    /\ NoText
    /\ NoMem

CallPlus ==
    /\ pc = "start"
    /\ ret' = Plus(coinsA, coinsB)
    /\ pc' = "Plus"
    /\ UNCHANGED <<coinsA, coinsB, steps, fromValid, textVars, memVars>>

CallMinus ==
    /\ pc = "start"
    /\ ret' = Minus(coinsA, coinsB)
    /\ pc' = "Minus"
    /\ UNCHANGED <<coinsA, coinsB, steps, fromValid, textVars, memVars>>

CallNegative ==
    /\ pc = "start"
    /\ ret' = Negative(coinsA)
    /\ pc' = "Negative"
    /\ UNCHANGED <<coinsA, coinsB, steps, fromValid, textVars, memVars>>

CallIsGTE ==
    /\ pc = "start"
    /\ ret' = IsGTE(coinsA, coinsB)
    /\ pc' = "IsGTE"
    /\ UNCHANGED <<coinsA, coinsB, steps, fromValid, textVars, memVars>>

\* the caller keeps a returned Coins as the receiver of the next call
StoreA ==
    /\ pc \in {"Plus", "Minus", "Negative"}
    /\ steps < MaxSteps
    /\ coinsA' = ret
    /\ ret' = <<>>
    /\ pc' = "start"
    /\ steps' = steps + 1
    /\ UNCHANGED <<coinsB, fromValid, textVars, memVars>>

\* the caller keeps a returned Coins as the argument of the next call
StoreB ==
    /\ pc \in {"Plus", "Minus", "Negative"}
    /\ steps < MaxSteps
    /\ coinsB' = ret
    /\ ret' = <<>>
    /\ pc' = "start"
    /\ steps' = steps + 1
    /\ UNCHANGED <<coinsA, fromValid, textVars, memVars>>

Next ==
    \/ CallPlus
    \/ CallMinus
    \/ CallNegative
    \/ CallIsGTE
    \/ StoreA
    \/ StoreB

Spec == Init /\ [][Next]_vars

-----------------------------------------------------------------------------
(* The text encoding: values formatted and parsed back, and raw inputs *)

\* the native int is as wide as the amount (64-bit builds) or half as wide
NarrowBits == AmountBits \div 2
IntWidths == {NarrowBits, AmountBits}
NarrowMax == (2 ^ (NarrowBits - 1)) - 1

FormatAmounts == {MinAmount, -1, 0, NarrowMax, NarrowMax + 1, MaxAmount}

\* any sequence of coins: unsorted, duplicate denominations, zero amounts
Values == SeqsUpTo({Coin(d, m) : d \in Denoms, m \in FormatAmounts}, MaxLen)

DigitRuns == {<<>>, <<"0">>, Decimal(NarrowMax), Decimal(NarrowMax + 3)}
LetterRuns == {<<>>, <<"a">>, <<"b">>}

\* one comma-delimited piece of an input, well-formed or not
Tokens ==
    UNION {{ds \o ls, <<" ">> \o ds \o ls, ds \o <<" ">> \o ls,
            ds \o ls \o <<"\t">>, <<"-">> \o ds \o ls} :
              ds \in DigitRuns, ls \in LetterRuns}

RECURSIVE Join(_)
Join(ts) ==
    IF Len(ts) = 0 THEN <<>>
    ELSE IF Len(ts) = 1 THEN ts[1]
    ELSE ts[1] \o <<",">> \o Join(Tail(ts))

RawInputs == {Join(ts) : ts \in SeqsUpTo(Tokens, MaxTokens)}

InitText ==
    /\ intBits \in IntWidths
    /\ \/ coinsA \in Values /\ str = <<>> /\ pc = "start"
       \/ coinsA = <<>> /\ str \in RawInputs /\ pc = "input"
    /\ coinsB = <<>>
    /\ ret = <<>>
    /\ steps = 0
    /\ fromValid = (ZeroFreeCanonical(coinsA) /\ ZeroFreeCanonical(coinsB))
    /\ NoMem

CallIsValid ==
    /\ pc = "start"
    /\ ret' = IsValid(coinsA)
    /\ pc' = "IsValid"
    /\ UNCHANGED <<coinsA, coinsB, steps, fromValid, textVars, memVars>>

CallString ==
    /\ pc = "start"
    /\ str' = CoinsString(coinsA)
    /\ pc' = "String"
    /\ UNCHANGED <<coinsA, coinsB, ret, steps, fromValid, intBits, memVars>>

\* ParseCoins on a raw input (steps = 0) or on the output of String (steps = 1)
CallParseCoins ==
    /\ pc \in {"input", "String"}
    /\ ret' \in ParseCoins(str, intBits)
    /\ pc' = "ParseCoins"
    /\ steps' = IF pc = "String" THEN 1 ELSE 0
    /\ UNCHANGED <<coinsA, coinsB, fromValid, textVars, memVars>>

NextText ==
    \/ CallIsValid
    \/ CallString
    \/ CallParseCoins

SpecText == InitText /\ [][NextText]_vars

-----------------------------------------------------------------------------
(* Properties of the arithmetic *)

Has(coins, d) == \E i \in 1..Len(coins) : coins[i].Denom = d

AmountOf(coins, d) ==
    IF Has(coins, d)
    THEN coins[CHOOSE i \in 1..Len(coins) : coins[i].Denom = d].Amount
    ELSE 0

DenomsOf(coins) == {coins[i].Denom : i \in 1..Len(coins)}

\* the elements of a finite set of strings in ascending byte order
RECURSIVE Ascending(_)
Ascending(S) ==
    IF S = {} THEN <<>>
    ELSE LET least == CHOOSE d \in S : \A e \in S : StrLessEq(d, e)
         IN  <<least>> \o Ascending(S \ {least})

\* the union-merge of two canonical sequences, stated per denomination
UnionMerge(cA, cB) ==
    LET both == DenomsOf(cA) \cap DenomsOf(cB)
        kept == {d \in DenomsOf(cA) \cup DenomsOf(cB) :
                    d \in both => Wrap(AmountOf(cA, d) + AmountOf(cB, d)) # 0}
        order == Ascending(kept)
    IN  [i \in 1..Len(order) |->
            LET d == order[i]
            IN  IF d \in both
                THEN Coin(d, Wrap(AmountOf(cA, d) + AmountOf(cB, d)))
                ELSE IF Has(cA, d) THEN Coin(d, AmountOf(cA, d))
                ELSE Coin(d, AmountOf(cB, d))]

SignFlipped(coins) ==
    [i \in 1..Len(coins) |-> Coin(coins[i].Denom, Wrap(0 - coins[i].Amount))]

IsArith == pc \in {"Plus", "Minus", "Negative"}

\* C2: starting from operands that are sorted, duplicate-free and zero-free,
\* every value produced by a sequence of Plus, Minus and Negative is sorted,
\* duplicate-free and zero-free, and IsValid returns true on it.
C2_ValidityPreserved ==
    fromValid =>
        /\ StrictlyIncreasing(coinsA) /\ NoZero(coinsA) /\ IsValid(coinsA)
        /\ StrictlyIncreasing(coinsB) /\ NoZero(coinsB) /\ IsValid(coinsB)
        /\ IsArith => StrictlyIncreasing(ret) /\ NoZero(ret) /\ IsValid(ret)

\* a result, computed from earlier results, in which one denomination
\* cancelled by wrap-around (min + min) and others survived
C2_Witness ==
    /\ fromValid
    /\ steps >= 2
    /\ pc = "Plus"
    /\ Len(ret) >= 2
    /\ \E d \in DenomsOf(coinsA) \cap DenomsOf(coinsB) :
          AmountOf(coinsA, d) = MinAmount /\ AmountOf(coinsB, d) = MinAmount

\* C6: for sorted duplicate-free operands, A.Plus(B) IsEqual B.Plus(A).
C6_PlusCommutes ==
    (pc = "Plus" /\ StrictlyIncreasing(coinsA) /\ StrictlyIncreasing(coinsB))
        => IsEqual(ret, Plus(coinsB, coinsA))

C6_Witness ==
    /\ pc = "Plus"
    /\ Len(coinsA) >= 2 /\ Len(coinsB) >= 2
    /\ DenomsOf(coinsA) # DenomsOf(coinsB)
    /\ DenomsOf(coinsA) \cap DenomsOf(coinsB) # {}
    /\ ~NoZero(coinsA)
    /\ Len(ret) >= 2

\* C7: for sorted duplicate-free A, A.Minus(A) has no nonzero entry, and it
\* is the empty sequence when A has no zero amount, the minimum amount
\* included.
C7_MinusSelfIsZero ==
    (pc = "Minus" /\ coinsA = coinsB /\ StrictlyIncreasing(coinsA))
        => /\ \A i \in 1..Len(ret) : ret[i].Amount = 0
           /\ NoZero(coinsA) => IsZero(ret)

C7_Witness ==
    /\ pc = "Minus"
    /\ coinsA = coinsB
    /\ Len(coinsA) >= 2
    /\ NoZero(coinsA)
    /\ \E i \in 1..Len(coinsA) : coinsA[i].Amount = MinAmount
    /\ IsZero(ret)

\* C9: for sorted duplicate-free operands, Plus is the union-merge: sorted,
\* duplicate-free, a coin found in one operand only is kept unchanged (a
\* zero amount too), a coin found in both carries the int64 sum and is left
\* out when that sum is 0; Minus is the same on B sign-flipped.
C9_PlusIsUnionMerge ==
    (StrictlyIncreasing(coinsA) /\ StrictlyIncreasing(coinsB)) =>
        /\ pc = "Plus" =>
              ret = UnionMerge(coinsA, coinsB) /\ StrictlyIncreasing(ret)
        /\ pc = "Minus" =>
              ret = UnionMerge(coinsA, SignFlipped(coinsB)) /\ StrictlyIncreasing(ret)

\* interleaved operands: a zero coin carried through, a sum, a cancellation
C9_Witness ==
    /\ pc = "Plus"
    /\ \E d \in DenomsOf(coinsA) \ DenomsOf(coinsB) :
          AmountOf(coinsA, d) = 0 /\ Has(ret, d)
    /\ \E d \in DenomsOf(coinsA) \cap DenomsOf(coinsB) :
          AmountOf(coinsA, d) # 0 /\ ~Has(ret, d)
    /\ \E d \in DenomsOf(coinsA) \cap DenomsOf(coinsB) :
          Has(ret, d) /\ AmountOf(ret, d) # AmountOf(coinsA, d)

\* C10 (as claimed): IsGTE is true exactly when every denomination's amount
\* in A is at least its amount in B, absent denominations counting as 0.
C10_IsGTEIsTheOrder ==
    (pc = "IsGTE" /\ StrictlyIncreasing(coinsA) /\ StrictlyIncreasing(coinsB))
        => (ret <=> \A d \in DenomsOf(coinsA) \cup DenomsOf(coinsB) :
                        AmountOf(coinsA, d) >= AmountOf(coinsB, d))

-----------------------------------------------------------------------------
(* Properties of the text encoding and of IsValid *)

IntMax(bits) == (2 ^ (bits - 1)) - 1

\* C1 (as claimed): a Coins returned by ParseCoins without error has strictly
\* increasing denominations and no zero amount at any position.
C1_ParseCoinsYieldsValid ==
    (pc = "ParseCoins" /\ ret.err = "")
        => StrictlyIncreasing(ret.coins) /\ NoZero(ret.coins)

\* C3 (as claimed): IsValid is true on the empty sequence, on one element
\* iff its amount is nonzero, and on two or more iff the denominations are
\* strictly increasing and every amount, the first included, is nonzero.
C3_IsValidChecksEveryAmount ==
    pc = "IsValid" =>
        (ret <=> IF Len(coinsA) = 0 THEN TRUE
                 ELSE IF Len(coinsA) = 1 THEN coinsA[1].Amount # 0
                 ELSE StrictlyIncreasing(coinsA) /\ NoZero(coinsA))

RoundTripped == pc = "ParseCoins" /\ steps = 1

\* C4 (as claimed): for every c with c.IsValid(), negative amounts included,
\* ParseCoins(c.String()) returns no error and a value IsEqual to c.
C4_RoundTrip ==
    (RoundTripped /\ IsValid(coinsA))
        => ret.err = "" /\ IsEqual(ret.coins, coinsA)

\* C4 (amended): for every c with c.IsValid() whose amounts are all between
\* 0 and the greatest native int, ParseCoins(c.String()) returns no error
\* and a value IsEqual to c; with any other amount it returns an error.
C4_RoundTripNonNegative ==
    (RoundTripped /\ IsValid(coinsA)) =>
        IF \A i \in 1..Len(coinsA) : coinsA[i].Amount \in 0..IntMax(intBits)
        THEN ret.err = "" /\ IsEqual(ret.coins, coinsA)
        ELSE ret.err # ""

C4_Witness ==
    /\ RoundTripped
    /\ IsValid(coinsA)
    /\ Len(coinsA) >= 2
    /\ \E i \in 1..Len(coinsA) : coinsA[i].Amount = MaxAmount
    /\ ret.err = ""
    /\ IsEqual(ret.coins, coinsA)

\* a comma followed by a space and then a digit
SpaceAfterComma(s) ==
    \E i \in 1..(Len(s) - 2) :
        s[i] = "," /\ s[i + 1] = " " /\ IsDigit(s[i + 2])

RECURSIVE DropSpaceAfterComma(_, _)
DropSpaceAfterComma(s, i) ==
    IF i > Len(s) THEN <<>>
    ELSE IF i > 1 /\ s[i] = " " /\ s[i - 1] = ","
    THEN DropSpaceAfterComma(s, i + 1)
    ELSE <<s[i]>> \o DropSpaceAfterComma(s, i + 1)

\* C8 (as claimed): ParseCoins rejects a list in which a space immediately
\* follows a comma, before the digits of the next token.
C8_SpaceAfterCommaRejected ==
    (pc = "ParseCoins" /\ steps = 0 /\ SpaceAfterComma(str)) => ret.err # ""

\* C8 (amended): a space immediately following a comma changes nothing:
\* ParseCoins returns what it returns for the same list without such
\* spaces (the same coins, the same kind of error or none).
C8_SpaceAfterCommaIgnored ==
    (pc = "ParseCoins" /\ steps = 0 /\ SpaceAfterComma(str))
        => ret \in ParseCoins(DropSpaceAfterComma(str, 1), intBits)

\* "<n>a, <m>b" parsed into two coins without error
C8_Witness ==
    /\ pc = "ParseCoins"
    /\ steps = 0
    /\ SpaceAfterComma(str)
    /\ ret.err = ""
    /\ Len(ret.coins) = 2
    /\ NoZero(ret.coins)

-----------------------------------------------------------------------------
(* Slices and backing arrays: Plus, Negative and Minus on storage *)

\* a slice header: backing array (index into heap, 0 for none), offset of
\* its first element in that array, length and capacity
Slice(arr, off, len, cap) == [arr |-> arr, off |-> off, len |-> len, cap |-> cap]

\* the elements a slice holds
View(h, s) == [i \in 1..s.len |-> h[s.arr][s.off + i]]

\* s[i:]
Reslice(s, i) == Slice(s.arr, s.off + i, s.len - i, s.cap - i)

\* capacity of the array append allocates when the old one is too small;
\* the allocator may round up by slack elements
GrowCap(old, needed, slack) ==
    (IF needed > 2 * old THEN needed ELSE 2 * old) + slack

\* the builtin append(s, xs...): in place within capacity, else a new array
AppendMem(h, s, xs, slack) ==
    IF Len(xs) = 0 THEN [heap |-> h, sl |-> s]
    ELSE IF s.len + Len(xs) <= s.cap
    THEN [heap |-> [h EXCEPT ![s.arr] =
                      [k \in 1..Len(@) |->
                          IF k > s.off + s.len /\ k <= s.off + s.len + Len(xs)
                          THEN xs[k - s.off - s.len]
                          ELSE @[k]]],
          sl |-> Slice(s.arr, s.off, s.len + Len(xs), s.cap)]
    ELSE LET newcap == GrowCap(s.cap, s.len + Len(xs), slack)
             old == IF s.len = 0 THEN <<>> ELSE View(h, s)
         IN  [heap |-> Append(h, [k \in 1..newcap |->
                                     IF k <= s.len THEN old[k]
                                     ELSE IF k <= s.len + Len(xs) THEN xs[k - s.len]
                                     ELSE NoCoin]),
              sl |-> Slice(Len(h) + 1, 0, s.len + Len(xs), newcap)]

\* make([]Coin, 0, n)
MakeSlice(h, n) ==
    [heap |-> Append(h, [k \in 1..n |-> NoCoin]),
     sl |-> Slice(Len(h) + 1, 0, 0, n)]

\* sum := coinsA[:0], reusing the receiver's array
NewSumReuseA(A, B) == Slice(A.arr, A.off, 0, A.cap)

\* sum := []Coin{}
NewSum(A, B) == Slice(0, 0, 0, 0)

\* the loop of Plus on storage: A, B and sum are slice headers
RECURSIVE PlusMemLoop(_, _, _, _, _, _, _)
PlusMemLoop(h, sum, indexA, indexB, A, B, slack) ==
    IF indexA = A.len
    THEN IF indexB = B.len
         THEN [heap |-> h, sl |-> sum]
         ELSE AppendMem(h, sum, View(h, Reslice(B, indexB)), slack)
    ELSE IF indexB = B.len
    THEN AppendMem(h, sum, View(h, Reslice(A, indexA)), slack)
    ELSE LET coinA == h[A.arr][A.off + indexA + 1]
             coinB == h[B.arr][B.off + indexB + 1]
             cmp == StrCompare(coinA.Denom, coinB.Denom)
         IN  IF cmp = -1
             THEN LET r == AppendMem(h, sum, <<coinA>>, slack)
                  IN  PlusMemLoop(r.heap, r.sl, indexA + 1, indexB, A, B, slack)
             ELSE IF cmp = 0
             THEN IF Add64(coinA.Amount, coinB.Amount) = 0
                  THEN PlusMemLoop(h, sum, indexA + 1, indexB + 1, A, B, slack)
                  ELSE LET r == AppendMem(h, sum,
                                   <<Coin(coinA.Denom, Add64(coinA.Amount, coinB.Amount))>>,
                                   slack)
                       IN  PlusMemLoop(r.heap, r.sl, indexA + 1, indexB + 1, A, B, slack)
             ELSE LET r == AppendMem(h, sum, <<coinB>>, slack)
                  IN  PlusMemLoop(r.heap, r.sl, indexA, indexB + 1, A, B, slack)

PlusMem(h, A, B, slack) == PlusMemLoop(h, NewSum(A, B), 0, 0, A, B, slack)

RECURSIVE NegativeMemLoop(_, _, _, _)
NegativeMemLoop(h, res, c, i) ==
    IF i > c.len THEN [heap |-> h, sl |-> res]
    ELSE LET coin == h[c.arr][c.off + i]
             r == AppendMem(h, res, <<Coin(coin.Denom, Neg64(coin.Amount))>>, 0)
         IN  NegativeMemLoop(r.heap, r.sl, c, i + 1)

NegativeMem(h, c) ==
    LET res == MakeSlice(h, c.len)
    IN  NegativeMemLoop(res.heap, res.sl, c, 1)

MinusMem(h, A, B, slack) ==
    LET neg == NegativeMem(h, B)
    IN  PlusMem(neg.heap, A, neg.sl, slack)

\* c[i], c[j] = c[j], c[i]   (i, j 0-based)
SwapMem(h, c, i, j) ==
    [h EXCEPT ![c.arr] = [@ EXCEPT ![c.off + i + 1] = h[c.arr][c.off + j + 1],
                                   ![c.off + j + 1] = h[c.arr][c.off + i + 1]]]

\* the elements of c replaced, in place, by the given sequence of equal length
WriteMem(h, c, xs) ==
    [h EXCEPT ![c.arr] = [k \in 1..Len(@) |->
                             IF k > c.off /\ k <= c.off + c.len
                             THEN xs[k - c.off] ELSE @[k]]]

-----------------------------------------------------------------------------
(* The storage: operands laid out in arrays, a call, then in-place changes  *)
(* to the result                                                            *)

MemDenoms == {<<"a">>, <<"b">>}
MemOperands ==
    {c \in Canonical : \A i \in 1..Len(c) :
        c[i].Denom \in MemDenoms /\ c[i].Amount \in {-1, 1}}

Padded(c, spare) == c \o [k \in 1..spare |-> NoCoin]

InitMem ==
    /\ \E a \in MemOperands, spareA \in 0..MaxSlack :
          \/ \E b \in MemOperands, spareB \in 0..MaxSlack :
                \* the operands in arrays of their own
                /\ heap = <<Padded(a, spareA), Padded(b, spareB)>>
                /\ slA = Slice(1, 0, Len(a), Len(a) + spareA)
                /\ slB = Slice(2, 0, Len(b), Len(b) + spareB)
          \/ \E k \in 0..Len(a) :
                \* the argument is coinsA[k:], in the receiver's array
                /\ heap = <<Padded(a, spareA)>>
                /\ slA = Slice(1, 0, Len(a), Len(a) + spareA)
                /\ slB = Reslice(slA, k)
    /\ slR = Slice(0, 0, 0, 0)
    /\ a0 = View(heap, slA)
    /\ b0 = View(heap, slB)
    /\ muts = 0
    /\ pc = "start"
    /\ coinsA = <<>> /\ coinsB = <<>> /\ ret = <<>> /\ steps = 0
    /\ fromValid = TRUE
    /\ NoText

MemCallPlus ==
    /\ pc = "start"
    /\ \E slack \in 0..MaxSlack :
          LET r == PlusMem(heap, slA, slB, slack)
          IN  heap' = r.heap /\ slR' = r.sl
    /\ pc' = "Plus"
    /\ UNCHANGED <<coinsA, coinsB, ret, steps, fromValid, textVars, slA, slB, a0, b0, muts>>

MemCallMinus ==
    /\ pc = "start"
    /\ \E slack \in 0..MaxSlack :
          LET r == MinusMem(heap, slA, slB, slack)
          IN  heap' = r.heap /\ slR' = r.sl
    /\ pc' = "Minus"
    /\ UNCHANGED <<coinsA, coinsB, ret, steps, fromValid, textVars, slA, slB, a0, b0, muts>>

MemCallNegative ==
    /\ pc = "start"
    /\ LET r == NegativeMem(heap, slA)
       IN  heap' = r.heap /\ slR' = r.sl
    /\ pc' = "Negative"
    /\ UNCHANGED <<coinsA, coinsB, ret, steps, fromValid, textVars, slA, slB, a0, b0, muts>>

\* the caller swaps two elements of the result
ResultSwap ==
    /\ IsArith
    /\ muts < MaxMuts
    /\ \E i, j \in 0..(slR.len - 1) :
          i < j /\ heap' = SwapMem(heap, slR, i, j)
    /\ muts' = muts + 1
    /\ UNCHANGED <<calcVars, textVars, slA, slB, slR, a0, b0>>

\* the caller sorts the result in place
ResultSort ==
    /\ IsArith
    /\ muts < MaxMuts
    /\ \E sorted \in SortOutcomes(View(heap, slR)) :
          heap' = WriteMem(heap, slR, sorted)
    /\ heap' # heap
    /\ muts' = muts + 1
    /\ UNCHANGED <<calcVars, textVars, slA, slB, slR, a0, b0>>

\* the caller appends to the result within its capacity
ResultAppend ==
    /\ IsArith
    /\ muts < MaxMuts
    /\ slR.len < slR.cap
    /\ LET r == AppendMem(heap, slR, <<Coin(<<"A">>, 1)>>, 0)
       IN  heap' = r.heap /\ slR' = r.sl
    /\ muts' = muts + 1
    /\ UNCHANGED <<calcVars, textVars, slA, slB, a0, b0>>

NextMem ==
    \/ MemCallPlus
    \/ MemCallMinus
    \/ MemCallNegative
    \/ ResultSwap
    \/ ResultSort
    \/ ResultAppend

SpecMem == InitMem /\ [][NextMem]_vars

\* the storage-level calls return the elements the value-level calls return
MemAgreesWithValues ==
    muts = 0 =>
        /\ pc = "Plus" => View(heap, slR) = Plus(a0, b0)
        /\ pc = "Minus" => View(heap, slR) = Minus(a0, b0)
        /\ pc = "Negative" => View(heap, slR) = Negative(a0)

\* C5: Plus, Negative and Minus leave the receiver and the argument holding
\* the same elements in the same order, the result shares its backing array
\* with neither, and in-place changes to the result (Swap, Sort, append
\* within capacity) leave both operands unchanged.
C5_OperandsUntouched ==
    /\ View(heap, slA) = a0
    /\ View(heap, slB) = b0
    /\ IsArith => slR.arr \notin {slA.arr, slB.arr}

\* a result changed in place twice after a call on non-empty operands
C5_Witness ==
    /\ pc = "Plus"
    /\ muts >= 2
    /\ Len(a0) >= 1 /\ Len(b0) >= 1
    /\ slR.len >= 2
    /\ View(heap, slR) # Plus(a0, b0)
    /\ View(heap, slA) = a0 /\ View(heap, slB) = b0

====
